---------------------------- MODULE Spec2Model ----------------------------
(***************************************************************************)
(* The service registry of moleculer (src/registry/registry.js).           *)
(*                                                                         *)
(* Registry composes four catalogs.  registry.js is the orchestrator; the  *)
(* catalogs it requires (./node-catalog, ./service-catalog,                *)
(* ./action-catalog, ./event-catalog, ../strategies) are modelled from     *)
(* their description in the specification, sections 4.2-4.5.               *)
(*                                                                         *)
(* Every registry operation is a pure operator from a registry value R     *)
(* (the fields of a Registry object) to the registry value it leaves; an   *)
(* operation that throws leaves R.err set and the state as it was when     *)
(* the exception left the method.  The actions at the end apply the        *)
(* operators to the state variables.                                       *)
(*                                                                         *)
(* settings (services.add / service.update) is an opaque payload that no   *)
(* branch of registry.js reads; it is not part of the model.               *)
(***************************************************************************)
EXTENDS Integers, Sequences, FiniteSets

VARIABLES
    services,      \* registry.services.services: the ServiceItem entries, in insertion order
    actions,       \* registry.actions: action name -> EndpointList (absent names are not in the domain)
    events,        \* registry.events: event name -> EndpointList
    localServices, \* registry.nodes.localNode.services
    StrategyFactory, \* registry.StrategyFactory
    last,          \* the last call made on the registry: method, node, name, result, exception
    registered,    \* the descriptors handed to registerLocalService so far, in call order
    steps          \* the number of calls made so far

vars == <<services, actions, events, localServices, StrategyFactory, last, registered, steps>>

----------------------------------------------------------------------------
(* Bounds and the finite universe of inputs *)

MaxListLen == 2        \* longest serviceList handed to registerServices
MaxLocalRegs == 2      \* registerLocalService calls in one run
MaxSteps == 2          \* calls in one run of Spec
MaxLooseSteps == 2     \* calls in one run of SpecLoose
MaxFlips == 2          \* availability flips in one run of SpecStructural

Undefined == [undefined |-> TRUE]        \* JavaScript's undefined, where an object is expected
NoValue == "undefined"                   \* JavaScript's undefined, where a string is expected
LocalNodeID == "A"                       \* broker.nodeID, the id of nodes.localNode
RemoteNodeIDs == {"B", "C"}
NodeIDs == {LocalNodeID} \cup RemoteNodeIDs
SnapshotNodeIDs == {"B"}                 \* the remote node whose snapshots Spec and SpecLoose draw
UnknownNodeID == "Z"                     \* an id no service is ever registered under

ServiceNames == {"math", "users"}
Versions == {"v1"}
ActionNames == {"add", "sub"}
EventNames == {"ev"}
UnknownName == "nope"                    \* a name no descriptor ever lists

----------------------------------------------------------------------------
(* Helpers *)

Range(s) == {s[i] : i \in 1..Len(s)}

\* obj[field] of a JavaScript object whose field may be missing.
Field(obj, field) == IF field \in DOMAIN obj THEN obj[field] ELSE NoValue


----------------------------------------------------------------------------
(* Data model (specification, section 3) *)

\* A ServiceItem: identity (name, version, node), and the names of its own
\* action and event maps.
ServiceItem(node, name, version) ==
    [node |-> node, name |-> name, version |-> version, actions |-> {}, events |-> {}]

\* service.equals(name, version, nodeID): the identity key; nodeID is optional.
ServiceEquals(service, name, version, nodeID) ==
    /\ service.name = name
    /\ service.version = version
    /\ (nodeID = NoValue \/ service.node = nodeID)

\* An Endpoint: the node it is on, the service that registered it, and the
\* availability flag an external collaborator sets.
Endpoint(node, service) ==
    [node |-> node, service |-> <<service.name, service.version>>, available |-> TRUE]

\* An EndpointList: one endpoint per node, in insertion order, and the cursor
\* of its Strategy instance.
EmptyEndpointList == [endpoints |-> <<>>, cursor |-> 0]

EmptyCatalog == [n \in {} |-> EmptyEndpointList]

----------------------------------------------------------------------------
(* EndpointList and Strategy (specification, section 4.5) *)

\* list.getEndpointByNodeID(nodeID): exact lookup, ignoring availability.
getEndpointByNodeID(list, nodeID) ==
    IF \E i \in 1..Len(list.endpoints) : list.endpoints[i].node = nodeID
    THEN list.endpoints[CHOOSE i \in 1..Len(list.endpoints) : list.endpoints[i].node = nodeID]
    ELSE Undefined

IsAvailable(ep) == ep.available

Available(list) == SelectSeq(list.endpoints, IsAvailable)

\* A round-robin that reads the available set at its cursor without looking
\* at the size the set has now: past the end there is nothing to read.
StrategySelectStale(strategy, avail, cursor) ==
    [ep |-> IF cursor < Len(avail) THEN avail[cursor + 1] ELSE Undefined,
     cursor |-> (cursor + 1) % Len(avail)]

\* Strategy.select(available endpoints): round-robin keeps a rotating cursor
\* that advances by one on each selection and wraps modulo the size of the
\* available set; a cursor that the set has shrunk under is out of range and
\* starts again at the head.  Any other strategy is stood for by one that
\* does not rotate and answers the head of the available set.
\* The result is the endpoint picked and the cursor left behind.
StrategySelect(strategy, avail, cursor) ==
    IF strategy = "RoundRobin"
    THEN LET at == IF cursor >= Len(avail) THEN 0 ELSE cursor
         IN  [ep |-> avail[at + 1], cursor |-> (at + 1) % Len(avail)]
    ELSE [ep |-> avail[1], cursor |-> cursor]

\* list.select(): filter to the available endpoints, delegate to the strategy;
\* nothing to pick when none is available.
ListSelect(strategy, list) ==
    LET avail == Available(list) IN
    IF Len(avail) = 0
    THEN [ep |-> Undefined, list |-> list]
    ELSE LET r == StrategySelect(strategy, avail, list.cursor) IN
         [ep |-> r.ep, list |-> [list EXCEPT !.cursor = r.cursor]]

----------------------------------------------------------------------------
(* ActionCatalog / EventCatalog (specification, section 4.4) *)

\* catalog.get(name): the EndpointList, or undefined.
CatalogGet(cat, name) ==
    IF name \in DOMAIN cat THEN cat[name] ELSE Undefined

CatalogPut(cat, name, list) ==
    [n \in DOMAIN cat \cup {name} |-> IF n = name THEN list ELSE cat[n]]

\* list.add(node, service): replace the endpoint of that node if there is
\* one (its availability is not the registry's to change), else append one.
ListAdd(list, node, service) ==
    IF \E i \in 1..Len(list.endpoints) : list.endpoints[i].node = node
    THEN [list EXCEPT !.endpoints =
            [i \in 1..Len(list.endpoints) |->
                IF list.endpoints[i].node = node
                THEN [list.endpoints[i] EXCEPT !.service = <<service.name, service.version>>]
                ELSE list.endpoints[i]]]
    ELSE [list EXCEPT !.endpoints = Append(list.endpoints, Endpoint(node, service))]

\* catalog.add(node, service, action): get-or-create the list of the name,
\* then upsert the endpoint of the node in it.
CatalogAdd(cat, node, service, name) ==
    LET list == IF name \in DOMAIN cat THEN cat[name] ELSE EmptyEndpointList
    IN  CatalogPut(cat, name, ListAdd(list, node, service))

\* catalog.remove(name, nodeID): remove the endpoint of nodeID; a list left
\* empty is deleted from the catalog.  Unknown name or node: nothing happens.
CatalogRemove(cat, name, nodeID) ==
    IF name \notin DOMAIN cat THEN cat
    ELSE LET NotNode(ep) == ep.node # nodeID
             rest == SelectSeq(cat[name].endpoints, NotNode)
         IN  IF Len(rest) = 0
             THEN [n \in DOMAIN cat \ {name} |-> cat[n]]
             ELSE CatalogPut(cat, name, [cat[name] EXCEPT !.endpoints = rest])

----------------------------------------------------------------------------
(* ServiceCatalog (specification, section 4.3) *)

\* services.get(name, version, nodeID): the index of the first entry with
\* that identity, 0 when there is none.
ServicesGet(svcs, name, version, nodeID) ==
    IF \E i \in 1..Len(svcs) : ServiceEquals(svcs[i], name, version, nodeID)
    THEN CHOOSE i \in 1..Len(svcs) :
            /\ ServiceEquals(svcs[i], name, version, nodeID)
            /\ \A j \in 1..(i - 1) : ~ServiceEquals(svcs[j], name, version, nodeID)
    ELSE 0

\* services.add(node, name, version, settings): create the entry, attached
\* to the node, and append it.
ServicesAdd(svcs, node, name, version) ==
    Append(svcs, ServiceItem(node, name, version))

\* services.remove(name, version, nodeID): removes the service entries of
\* that identity, and nothing else (4.3: unregistering the service's actions
\* and events is the Registry's part).
ServicesRemove(svcs, name, version, nodeID) ==
    LET Keep(s) == ~ServiceEquals(s, name, version, nodeID) IN SelectSeq(svcs, Keep)

\* services.removeAllByNodeID(nodeID): removes the service entries of the node.
ServicesRemoveAllByNodeID(svcs, nodeID) ==
    LET Keep(s) == s.node # nodeID IN SelectSeq(svcs, Keep)

\* The projection of one service entry that services.list(opts) produces.
ServiceListItem(service, opts) ==
    LET base == [name |-> service.name, version |-> service.version]
        withA == IF opts.withActions
                 THEN [f \in DOMAIN base \cup {"actions"} |->
                          IF f = "actions" THEN service.actions ELSE base[f]]
                 ELSE base
    IN  IF opts.withEvents
        THEN [f \in DOMAIN withA \cup {"events"} |->
                 IF f = "events" THEN service.events ELSE withA[f]]
        ELSE withA

\* services.list({onlyLocal, withActions, withEvents}): the filtered, ordered
\* projection of the entries: each service, with its actions and its events
\* when asked for.
ServicesList(svcs, opts) ==
    LET Wanted(x) == ~opts.onlyLocal \/ x.node = LocalNodeID
        kept == SelectSeq(svcs, Wanted)
    IN  [k \in 1..Len(kept) |-> ServiceListItem(kept[k], opts)]

----------------------------------------------------------------------------
(* Registry (src/registry/registry.js) *)

\* A constructor that hands the ActionCatalog a strategy that does not rotate.
PinnedStrategy == "Pinned"

\* The strategy the constructor hands to the ActionCatalog and to the
\* EventCatalog (lines 42 and 43).
ActionCatalogStrategy == "RoundRobin"

EventCatalogStrategy == "RoundRobin"

\* this.StrategyFactory, line 38: the option, or round-robin when the
\* options name no strategy.
ConfiguredStrategy(opts) ==
    IF Field(opts, "StrategyFactory") = NoValue THEN "RoundRobin" ELSE opts.StrategyFactory

\* The fields of a Registry after construction (lines 40-43), and no
\* exception pending.
NewRegistry ==
    [services |-> <<>>, actions |-> EmptyCatalog, events |-> EmptyCatalog,
     localServices |-> <<>>, err |-> "none"]

Throw(R, e) == [R EXCEPT !.err = e]

\* service.addAction(action) / service.addEvent(event) on the entry at index i.
ServiceAddAction(svcs, i, name) == [svcs EXCEPT ![i].actions = @ \cup {name}]

ServiceAddEvent(svcs, i, name) == [svcs EXCEPT ![i].events = @ \cup {name}]

\* registerActions that pushes a new endpoint on the list of the name without
\* looking for the endpoint the node already has there.
RECURSIVE registerActionsAppending(_, _, _, _)
registerActionsAppending(R, node, i, names) ==
    IF names = {} THEN R
    ELSE LET name == CHOOSE n \in names : TRUE
             list == IF name \in DOMAIN R.actions THEN R.actions[name] ELSE EmptyEndpointList
             R1 == [R EXCEPT !.actions = CatalogPut(R.actions, name,
                                 [list EXCEPT !.endpoints = Append(@, Endpoint(node, R.services[i]))]),
                             !.services = ServiceAddAction(R.services, i, name)]
         IN  registerActionsAppending(R1, node, i, names \ {name})

\* registerActions(node, service, actions), lines 145-150: for every entry
\* of the map, actions.add(node, service, action) and service.addAction(action).
\* service is the entry at index i of R.services.
RECURSIVE registerActions(_, _, _, _)
registerActions(R, node, i, names) ==
    IF names = {} THEN R
    ELSE LET name == CHOOSE n \in names : TRUE
             R1 == [R EXCEPT !.actions = CatalogAdd(R.actions, node, R.services[i], name),
                             !.services = ServiceAddAction(R.services, i, name)]
         IN  registerActions(R1, node, i, names \ {name})

\* registerEvents(node, service, events), lines 218-223.
RECURSIVE registerEvents(_, _, _, _)
registerEvents(R, node, i, names) ==
    IF names = {} THEN R
    ELSE LET name == CHOOSE n \in names : TRUE
             R1 == [R EXCEPT !.events = CatalogAdd(R.events, node, R.services[i], name),
                             !.services = ServiceAddEvent(R.services, i, name)]
         IN  registerEvents(R1, node, i, names \ {name})

\* unregisterAction that takes the endpoint of the node off the list of the
\* name and leaves the list in the catalog.
unregisterActionKeepingList(R, node, actionName) ==
    IF actionName \notin DOMAIN R.actions THEN R
    ELSE LET NotNode(ep) == ep.node # node
         IN  [R EXCEPT !.actions[actionName].endpoints = SelectSeq(@, NotNode)]

\* unregisterAction(node, actionName), lines 206-208.
unregisterAction(R, node, actionName) ==
    [R EXCEPT !.actions = CatalogRemove(R.actions, actionName, node)]

\* unregisterEvent(node, eventName), lines 232-234.
unregisterEvent(R, node, eventName) ==
    [R EXCEPT !.events = CatalogRemove(R.events, eventName, node)]

\* unregisterService that does not hand the node id on: the catalog then
\* removes the service of that name and version on every node.
unregisterServiceOnAnyNode(R, name, version, nodeID) ==
    [R EXCEPT !.services = ServicesRemove(R.services, name, version, NoValue)]

\* unregisterService that hands the broker's own id on whatever nodeID is.
unregisterServiceAlwaysLocal(R, name, version, nodeID) ==
    [R EXCEPT !.services = ServicesRemove(R.services, name, version, LocalNodeID)]

\* unregisterService(name, version, nodeID), lines 185-187: nodeID falls
\* back to the broker's own id.
unregisterService(R, name, version, nodeID) ==
    [R EXCEPT !.services =
        ServicesRemove(R.services, name, version,
                       IF nodeID = NoValue THEN LocalNodeID ELSE nodeID)]

\* unregisterServicesByNode(nodeID), lines 195-197.
unregisterServicesByNode(R, nodeID) ==
    [R EXCEPT !.services = ServicesRemoveAllByNodeID(R.services, nodeID)]

\* getActionEndpoints(actionName), lines 159-161: what it returns, and what
\* it throws.
getActionEndpoints(R, actionName) ==
    [err |-> "none", ret |-> CatalogGet(R.actions, actionName)]

\* getActionEndpointByNodeId without the "if (list)" of line 173: calling
\* getEndpointByNodeID on undefined throws.
getActionEndpointByNodeIdUnguarded(R, actionName, nodeID) ==
    LET list == CatalogGet(R.actions, actionName) IN
    IF list # Undefined
    THEN [err |-> "none", ret |-> getEndpointByNodeID(list, nodeID)]
    ELSE [err |-> "TypeError", ret |-> Undefined]

\* getActionEndpointByNodeId(actionName, nodeID), lines 171-175: what it
\* returns and what it throws; a method that falls off its end returns
\* undefined.
getActionEndpointByNodeId(R, actionName, nodeID) ==
    LET list == CatalogGet(R.actions, actionName) IN
    IF list # Undefined
    THEN [err |-> "none", ret |-> getEndpointByNodeID(list, nodeID)]
    ELSE [err |-> "none", ret |-> Undefined]

\* registerLocalService(svc), lines 61-74.
registerLocalService(R, svc) ==
    LET R1 == [R EXCEPT !.services =
                  ServicesAdd(R.services, LocalNodeID, Field(svc, "name"), Field(svc, "version"))]
        i  == Len(R1.services)
        R2 == IF "actions" \in DOMAIN svc
              THEN registerActions(R1, LocalNodeID, i, svc.actions) ELSE R1
        R3 == IF "events" \in DOMAIN svc
              THEN registerEvents(R2, LocalNodeID, i, svc.events) ELSE R2
    IN  [R3 EXCEPT !.localServices = Append(@, <<R3.services[i].name, R3.services[i].version>>)]

\* Lines 100-105: for every name of prevActions, "if (!svc.actions[name])
\* unregisterAction(node, name)".  Reading svc.actions[name] of a descriptor
\* without an actions map throws a TypeError at the first name.
RECURSIVE removeOldActions(_, _, _, _)
removeOldActions(R, node, svc, prevActions) ==
    IF prevActions = {} THEN R
    ELSE IF "actions" \notin DOMAIN svc THEN Throw(R, "TypeError")
    ELSE LET name == CHOOSE n \in prevActions : TRUE
             R1 == IF name \notin svc.actions THEN unregisterAction(R, node, name) ELSE R
         IN  removeOldActions(R1, node, svc, prevActions \ {name})

\* Lines 112-117, the same for the events.
RECURSIVE removeOldEvents(_, _, _, _)
removeOldEvents(R, node, svc, prevEvents) ==
    IF prevEvents = {} THEN R
    ELSE IF "events" \notin DOMAIN svc THEN Throw(R, "TypeError")
    ELSE LET name == CHOOSE n \in prevEvents : TRUE
             R1 == IF name \notin svc.events THEN unregisterEvent(R, node, name) ELSE R
         IN  removeOldEvents(R1, node, svc, prevEvents \ {name})

\* The body of the first forEach without the services.get of line 86: every
\* descriptor is taken for a new service.
registerOneServiceAlwaysAdding(R, node, svc) ==
    LET R1 == [R EXCEPT !.services =
                  ServicesAdd(R.services, node, Field(svc, "name"), Field(svc, "version"))]
        i  == Len(R1.services)
        R2 == IF "actions" \in DOMAIN svc THEN registerActions(R1, node, i, svc.actions) ELSE R1
    IN  IF "events" \in DOMAIN svc THEN registerEvents(R2, node, i, svc.events) ELSE R2

\* Lines 85-117, the body of the first forEach for one descriptor svc.
registerOneService(R, node, svc) ==
    LET found == ServicesGet(R.services, Field(svc, "name"), Field(svc, "version"), node)
        \* lines 87-93; service.update(svc) merges the settings only
        R1 == IF found = 0
              THEN [R EXCEPT !.services =
                      ServicesAdd(R.services, node, Field(svc, "name"), Field(svc, "version"))]
              ELSE R
        i  == IF found = 0 THEN Len(R1.services) ELSE found
        \* prevActions and prevEvents stay undefined for a new service
        prevActions == IF found = 0 THEN {} ELSE R.services[found].actions
        prevEvents  == IF found = 0 THEN {} ELSE R.services[found].events
        \* lines 96-97
        R2 == IF "actions" \in DOMAIN svc THEN registerActions(R1, node, i, svc.actions) ELSE R1
        \* lines 100-105
        R3 == removeOldActions(R2, node, svc, prevActions)
        \* lines 108-109
        R4 == IF "events" \in DOMAIN svc THEN registerEvents(R3, node, i, svc.events) ELSE R3
        \* lines 112-117
        R5 == removeOldEvents(R4, node, svc, prevEvents)
    IN  IF R3.err # "none" THEN R3 ELSE R5

\* Lines 84-118: serviceList.forEach; an exception ends the loop and the call.
RECURSIVE registerEachService(_, _, _, _)
registerEachService(R, node, serviceList, k) ==
    IF k > Len(serviceList) \/ R.err # "none" THEN R
    ELSE registerEachService(registerOneService(R, node, serviceList[k]), node, serviceList, k + 1)

\* Lines 124-128: whether the list names the service.
ExistsInList(service, serviceList) ==
    \E k \in 1..Len(serviceList) :
        ServiceEquals(service, Field(serviceList[k], "name"), Field(serviceList[k], "version"), NoValue)

\* Lines 121-134: every service entry of the node that the list does not
\* name is unregistered.  all is the entries the scan visits.
RECURSIVE removeOldServices(_, _, _, _, _)
removeOldServices(R, node, serviceList, all, k) ==
    IF k > Len(all) THEN R
    ELSE LET service == all[k]
             R1 == IF service.node # node THEN R
                   ELSE IF ~ExistsInList(service, serviceList)
                        THEN unregisterService(R, service.name, service.version, node)
                        ELSE R
         IN  removeOldServices(R1, node, serviceList, all, k + 1)

\* registerServices that hands control back after the forEach of lines
\* 84-118, before the scan for old services of lines 121-134.
registerServicesFirstPhase(R, node, serviceList) ==
    registerEachService(R, node, serviceList, 1)

\* registerServices(node, serviceList), lines 83-135.
registerServices(R, node, serviceList) ==
    LET R1 == registerEachService(R, node, serviceList, 1) IN
    IF R1.err # "none" THEN R1
    ELSE removeOldServices(R1, node, serviceList, R1.services, 1)

\* getLocalNodeInfo that asks services.list for the actions only.
getLocalNodeInfoWithoutEvents(R) ==
    [services |-> ServicesList(R.services,
                     [onlyLocal |-> TRUE, withActions |-> TRUE, withEvents |-> FALSE])]

\* getLocalNodeInfo(), lines 242-248: the identity fields picked from the
\* local node are opaque to the registry; services is
\* services.list({onlyLocal: true, withActions: true, withEvents: true}).
getLocalNodeInfo(R) ==
    [services |-> ServicesList(R.services,
                     [onlyLocal |-> TRUE, withActions |-> TRUE, withEvents |-> TRUE])]

----------------------------------------------------------------------------
(* The calls the environment makes *)

\* Service descriptors: {name, version, actions, events}.
Descriptors ==
    [name : ServiceNames, version : Versions, actions : SUBSET ActionNames, events : SUBSET EventNames]

\* Descriptors without an actions map, an events map, or both.
MaplessDescriptors ==
    [name : ServiceNames, version : Versions, actions : SUBSET ActionNames]
    \cup [name : ServiceNames, version : Versions, events : SUBSET EventNames]
    \cup [name : ServiceNames, version : Versions]

\* Malformed descriptors: no name, or no version.
Malformed ==
    [version : Versions, actions : {{"add"}}, events : {{}}]
    \cup [name : ServiceNames, actions : {{"add"}}, events : {{}}]

LooseDescriptors == Descriptors \cup MaplessDescriptors \cup Malformed

RECURSIVE SeqsUpTo(_, _)
SeqsUpTo(S, n) ==
    IF n = 0 THEN {<<>>}
    ELSE LET shorter == SeqsUpTo(S, n - 1)
         IN  shorter \cup {Append(l, x) : l \in {m \in shorter : Len(m) = n - 1}, x \in S}

\* A snapshot names each service once.
NamesOnce(list) ==
    \A i, j \in 1..Len(list) :
        i # j => \/ Field(list[i], "name") # Field(list[j], "name")
                 \/ Field(list[i], "version") # Field(list[j], "version")

ServiceLists == {l \in SeqsUpTo(Descriptors, MaxListLen) : NamesOnce(l)}

LooseServiceLists == {l \in SeqsUpTo(LooseDescriptors, MaxListLen) : NamesOnce(l)}

\* The registry object as the state variables hold it.
Reg ==
    [services |-> services, actions |-> actions, events |-> events,
     localServices |-> localServices, err |-> "none"]

\* A call as last records it: the method, its node, name and version
\* arguments, the serviceList or descriptor handed over, whether the registry held the
\* call's target when it was made, what it returned and what it threw.
Call(op, node, name) ==
    [op |-> op, node |-> node, name |-> name, version |-> NoValue, list |-> <<>>,
     known |-> FALSE, ret |-> Undefined, err |-> "none"]

\* The call returns (or throws) leaving registry R.
Leaves(R, call) ==
    /\ services' = R.services
    /\ actions' = R.actions
    /\ events' = R.events
    /\ localServices' = R.localServices
    /\ StrategyFactory' = StrategyFactory
    /\ last' = [call EXCEPT !.err = R.err]
    /\ registered' = IF call.op = "registerLocalService"
                     THEN Append(registered, call.list[1]) ELSE registered

\* broker.options.registry: nothing, or a StrategyFactory.
NoOptions == [o \in {} |-> NoValue]

RegistryOptions == {NoOptions} \cup {[StrategyFactory |-> f] : f \in {"RoundRobin", "Random"}}

\* new Registry(broker) with the options opts.
Constructed(opts) ==
    /\ services = NewRegistry.services
    /\ actions = NewRegistry.actions
    /\ events = NewRegistry.events
    /\ localServices = NewRegistry.localServices
    /\ StrategyFactory = ConfiguredStrategy(opts)
    /\ last = [Call("new", NoValue, NoValue) EXCEPT !.list = <<opts>>]
    /\ registered = <<>>
    /\ steps = 0

\* A registry of a broker without registry options.
Init == Constructed(NoOptions)

\* A registry of a broker with any of the options.
InitConfigured == \E opts \in RegistryOptions : Constructed(opts)

\* Whether the node has an endpoint in the list of the name.
HasEndpoint(cat, name, node) ==
    /\ name \in DOMAIN cat
    /\ \E i \in 1..Len(cat[name].endpoints) : cat[name].endpoints[i].node = node

\* The broker registers a local service.  Callers register a local service
\* once (specification, 4.1): no entry of the local node has its identity.
RegisterLocalServiceOf(descriptors) ==
    \E svc \in descriptors :
        /\ Len(localServices) < MaxLocalRegs
        /\ ServicesGet(services, Field(svc, "name"), Field(svc, "version"), LocalNodeID) = 0
        /\ Leaves(registerLocalService(Reg, svc),
                  [Call("registerLocalService", LocalNodeID, Field(svc, "name"))
                      EXCEPT !.list = <<svc>>])

\* A full snapshot of a remote node arrives.
RegisterServicesOf(nodes, lists) ==
    \E node \in nodes, serviceList \in lists :
        Leaves(registerServices(Reg, node, serviceList),
               [Call("registerServices", node, NoValue)
                   EXCEPT !.list = serviceList,
                          !.known = \E i \in 1..Len(services) : services[i].node = node])

\* registerActions / registerEvents called on a service the registry holds,
\* for its own node.
RegisterActions ==
    \E i \in 1..Len(services), names \in SUBSET ActionNames :
        Leaves(registerActions(Reg, services[i].node, i, names),
               [Call("registerActions", services[i].node, services[i].name)
                   EXCEPT !.list = <<[actions |-> names]>>,
                          !.known = \E n \in names : HasEndpoint(actions, n, services[i].node)])

RegisterEvents ==
    \E i \in 1..Len(services), names \in SUBSET EventNames :
        Leaves(registerEvents(Reg, services[i].node, i, names),
               [Call("registerEvents", services[i].node, services[i].name)
                   EXCEPT !.list = <<[events |-> names]>>,
                          !.known = \E n \in names : HasEndpoint(events, n, services[i].node)])

UnregisterService ==
    \E name \in ServiceNames \cup {UnknownName}, version \in Versions,
       nodeID \in NodeIDs \cup {UnknownNodeID, NoValue} :
        Leaves(unregisterService(Reg, name, version, nodeID),
               [Call("unregisterService", nodeID, name)
                   EXCEPT !.version = version,
                          !.known = ServicesGet(services, name, version,
                                       IF nodeID = NoValue THEN LocalNodeID ELSE nodeID) # 0])

UnregisterServicesByNode ==
    \E nodeID \in NodeIDs \cup {UnknownNodeID} :
        Leaves(unregisterServicesByNode(Reg, nodeID),
               [Call("unregisterServicesByNode", nodeID, NoValue)
                   EXCEPT !.known = \E i \in 1..Len(services) : services[i].node = nodeID])

UnregisterAction ==
    \E node \in NodeIDs \cup {UnknownNodeID}, name \in ActionNames \cup {UnknownName} :
        Leaves(unregisterAction(Reg, node, name),
               [Call("unregisterAction", node, name)
                   EXCEPT !.known = HasEndpoint(actions, name, node)])

UnregisterEvent ==
    \E node \in NodeIDs \cup {UnknownNodeID}, name \in EventNames \cup {UnknownName} :
        Leaves(unregisterEvent(Reg, node, name),
               [Call("unregisterEvent", node, name)
                   EXCEPT !.known = HasEndpoint(events, name, node)])

GetActionEndpoints ==
    \E name \in ActionNames \cup {UnknownName} :
        LET r == getActionEndpoints(Reg, name)
        IN  Leaves([Reg EXCEPT !.err = r.err],
                   [Call("getActionEndpoints", NoValue, name)
                       EXCEPT !.ret = r.ret, !.known = name \in DOMAIN actions])

GetActionEndpointByNodeId ==
    \E name \in ActionNames \cup {UnknownName}, nodeID \in NodeIDs \cup {UnknownNodeID} :
        LET r == getActionEndpointByNodeId(Reg, name, nodeID)
        IN  Leaves([Reg EXCEPT !.err = r.err],
                   [Call("getActionEndpointByNodeId", nodeID, name)
                       EXCEPT !.ret = r.ret, !.known = HasEndpoint(actions, name, nodeID)])

\* The dispatcher asks the EndpointList of an action for an endpoint.
Select ==
    \E name \in DOMAIN actions :
        LET r == ListSelect(ActionCatalogStrategy, actions[name])
        IN  Leaves([Reg EXCEPT !.actions = CatalogPut(actions, name, r.list)],
                   [Call("select", NoValue, name) EXCEPT !.ret = r.ep])

\* The circuit breaker flips the availability of an endpoint.
SetAvailable ==
    \E name \in DOMAIN actions, flag \in BOOLEAN :
      \E i \in 1..Len(actions[name].endpoints) :
        /\ actions[name].endpoints[i].available # flag
        /\ Leaves([Reg EXCEPT !.actions[name].endpoints[i].available = flag],
                  Call("setAvailable", actions[name].endpoints[i].node, name))

\* The transit asks for the discovery snapshot of the local node.
GetLocalNodeInfo ==
    Leaves(Reg, [Call("getLocalNodeInfo", LocalNodeID, NoValue)
                    EXCEPT !.ret = getLocalNodeInfo(Reg)])

\* One more call, of at most budget.
Step(budget) == steps < budget /\ steps' = steps + 1

\* Spec: registrations, removals and lookups, with well-formed snapshots.
Next ==
    \/ Step(MaxSteps) /\ RegisterLocalServiceOf(Descriptors)
    \/ Step(MaxSteps) /\ RegisterServicesOf(SnapshotNodeIDs, ServiceLists)
    \/ Step(MaxSteps) /\ RegisterActions
    \/ Step(MaxSteps) /\ RegisterEvents
    \/ Step(MaxSteps) /\ UnregisterService
    \/ Step(MaxSteps) /\ UnregisterServicesByNode
    \/ Step(MaxSteps) /\ UnregisterAction
    \/ Step(MaxSteps) /\ UnregisterEvent
    \/ Step(MaxSteps) /\ GetActionEndpoints
    \/ Step(MaxSteps) /\ GetActionEndpointByNodeId

Spec == Init /\ [][Next]_vars

\* SpecLoose: snapshots and local descriptors that may lack maps, a name or
\* a version.
NextLoose ==
    \/ Step(MaxLooseSteps) /\ RegisterLocalServiceOf(LooseDescriptors)
    \/ Step(MaxLooseSteps) /\ RegisterServicesOf(SnapshotNodeIDs, LooseServiceLists)

SpecLoose == Init /\ [][NextLoose]_vars

\* SpecSelect: one action served on up to three nodes, endpoints coming and
\* going, availability flipping, and the dispatcher selecting.
SelectDescriptors == [name : {"math"}, version : Versions, actions : {{"add"}}, events : {{}}]

SelectLists == SeqsUpTo(SelectDescriptors, 1)

NextSelect ==
    \/ UNCHANGED steps /\ RegisterLocalServiceOf(SelectDescriptors)
    \/ UNCHANGED steps /\ RegisterServicesOf(RemoteNodeIDs, SelectLists)
    \/ UNCHANGED steps /\ UnregisterAction
    \/ UNCHANGED steps /\ Select
    \/ UNCHANGED steps /\ SetAvailable

SpecSelect == Init /\ [][NextSelect]_vars

\* SpecDiscovery: the broker registers its local services, with or without
\* action and event maps, and the transit asks for the discovery snapshot.
NextDiscovery ==
    \/ UNCHANGED steps /\ RegisterLocalServiceOf(Descriptors \cup MaplessDescriptors)
    \/ UNCHANGED steps /\ last.op # "getLocalNodeInfo" /\ GetLocalNodeInfo

SpecDiscovery == Init /\ [][NextDiscovery]_vars

\* SpecConfigured: SpecSelect for a registry constructed with any options.
SpecConfigured == InitConfigured /\ [][NextSelect]_vars

\* SpecStructural: selections interleaved with endpoints of one list being
\* added and removed.  Availability flips, which are neither, happen at most
\* MaxFlips times in a run (steps counts them here); the dispatcher keeps
\* selecting as long as there is a list to select from.
NextStructural ==
    \/ UNCHANGED steps /\ RegisterLocalServiceOf(SelectDescriptors)
    \/ UNCHANGED steps /\ RegisterServicesOf(RemoteNodeIDs, SelectLists)
    \/ UNCHANGED steps /\ UnregisterAction
    \/ UNCHANGED steps /\ Select
    \/ Step(MaxFlips) /\ SetAvailable

SpecStructural ==
    Init /\ [][NextStructural]_vars /\ WF_vars(UNCHANGED steps /\ Select)

\* SpecIdentity: snapshots that may list a service more than once, received
\* any number of times, local registrations and removals.
IdentityDescriptors ==
    [name : ServiceNames, version : Versions, actions : {{"add"}}, events : {{}}]

IdentityLists == SeqsUpTo(IdentityDescriptors, MaxListLen)

NextIdentity ==
    \/ UNCHANGED steps /\ RegisterLocalServiceOf(IdentityDescriptors)
    \/ UNCHANGED steps /\ RegisterServicesOf(SnapshotNodeIDs, IdentityLists)
    \/ UNCHANGED steps /\ UnregisterService
    \/ UNCHANGED steps /\ UnregisterServicesByNode
    \/ UNCHANGED steps /\ UnregisterAction
    \/ UNCHANGED steps /\ UnregisterEvent

SpecIdentity == Init /\ [][NextIdentity]_vars

----------------------------------------------------------------------------
(* What the registry records for a node, and what a snapshot lists *)

ServicesOf(R, node) ==
    {<<R.services[i].name, R.services[i].version>> :
        i \in {j \in 1..Len(R.services) : R.services[j].node = node}}

ActionNamesOf(R, node) == {n \in DOMAIN R.actions : HasEndpoint(R.actions, n, node)}

EventNamesOf(R, node) == {n \in DOMAIN R.events : HasEndpoint(R.events, n, node)}

ListedServices(list) ==
    {<<Field(list[k], "name"), Field(list[k], "version")>> : k \in 1..Len(list)}

ListedActions(list) ==
    UNION {IF "actions" \in DOMAIN list[k] THEN list[k].actions ELSE {} : k \in 1..Len(list)}

ListedEvents(list) ==
    UNION {IF "events" \in DOMAIN list[k] THEN list[k].events ELSE {} : k \in 1..Len(list)}

----------------------------------------------------------------------------
(* Claims *)

\* C1 (snapshot convergence): after registerServices(N, Sk) has returned, the
\* services the registry holds for N and the action and event names N has an
\* endpoint under are exactly those Sk lists: nothing left over, nothing
\* missing.
C1_SnapshotConvergence ==
    (last.op = "registerServices" /\ last.err = "none") =>
        /\ ServicesOf(Reg, last.node) = ListedServices(last.list)
        /\ ActionNamesOf(Reg, last.node) = ListedActions(last.list)
        /\ EventNamesOf(Reg, last.node) = ListedEvents(last.list)

\* The lists that are permutations of list.
Permutations(list) ==
    LET n == Len(list)
        Bijections == {f \in [1..n -> 1..n] : \A i, j \in 1..n : f[i] = f[j] => i = j}
    IN  {[i \in 1..n |-> list[f[i]]] : f \in Bijections}

\* What the registry records for a node: its services, and the action and
\* event names it has an endpoint under.
NodeView(R, node) ==
    [services |-> ServicesOf(R, node), actions |-> ActionNamesOf(R, node),
     events |-> EventNamesOf(R, node)]

\* C2 (order independence): whenever registerServices(N, S) is called, the
\* call with any permutation S2 of S instead would have left the same
\* services, action endpoints and event endpoints for N.
C2_OrderIndependence ==
    [][last'.op = "registerServices" =>
        \A S2 \in Permutations(last'.list) :
            NodeView(registerServices(Reg, last'.node, S2), last'.node)
                = NodeView(Reg', last'.node)]_vars

\* C3 (cascade on node removal): after unregisterServicesByNode(N) the
\* registry holds no service of N and no action or event endpoint of N, so a
\* lookup of an action only N served finds no endpoint and a lookup of an
\* action other nodes serve finds theirs only.
C3_CascadeOnNodeRemoval ==
    last.op = "unregisterServicesByNode" =>
        /\ ServicesOf(Reg, last.node) = {}
        /\ ActionNamesOf(Reg, last.node) = {}
        /\ EventNamesOf(Reg, last.node) = {}
        /\ \A name \in ActionNames :
              getActionEndpointByNodeId(Reg, name, last.node).ret = Undefined

\* The service entries of a node, in catalog order, and its endpoints.
ServiceEntriesOf(svcs, node) ==
    LET OfNode(x) == x.node = node IN SelectSeq(svcs, OfNode)

EndpointsOf(cat, node) ==
    UNION {{<<n, ep>> : ep \in {x \in Range(cat[n].endpoints) : x.node = node}} : n \in DOMAIN cat}

\* C5 (reconciliation is local to the node): registerServices(B, S) leaves
\* every service and endpoint of any other node as it was, leaves B its
\* endpoint under every name S still lists, and leaves B no endpoint under a
\* name it served and S omits.
C5_ReconciliationIsLocal ==
    [][(last'.op = "registerServices" /\ last'.err = "none") =>
        LET B == last'.node
            S == last'.list
        IN  /\ \A A \in NodeIDs \ {B} :
                  /\ ServiceEntriesOf(services', A) = ServiceEntriesOf(services, A)
                  /\ EndpointsOf(actions', A) = EndpointsOf(actions, A)
                  /\ EndpointsOf(events', A) = EndpointsOf(events, A)
            /\ \A n \in ActionNamesOf(Reg, B) :
                  n \in ActionNamesOf(Reg', B) <=> n \in ListedActions(S)
            /\ \A n \in EventNamesOf(Reg, B) :
                  n \in EventNamesOf(Reg', B) <=> n \in ListedEvents(S)]_vars

IsMalformed(svc) == "name" \notin DOMAIN svc \/ "version" \notin DOMAIN svc

\* The service entries of a node with the identity a descriptor gives.
EntriesFor(R, node, svc) ==
    {x \in Range(R.services) :
        x.node = node /\ x.name = Field(svc, "name") /\ x.version = Field(svc, "version")}

\* C9 (a malformed descriptor does not abort the batch): after
\* registerServices(node, list) with a descriptor that lacks its name or its
\* version in the list, the call has not thrown, the registry holds no
\* service, action or event for that descriptor, and every well-formed
\* descriptor of the list is registered for the node.
C9_MalformedDescriptorRejected ==
    (last.op = "registerServices" /\ \E k \in 1..Len(last.list) : IsMalformed(last.list[k])) =>
        /\ last.err = "none"
        /\ \A x \in Range(services) :
              x.node = last.node => x.name # NoValue /\ x.version # NoValue
        /\ \A ep \in EndpointsOf(actions, last.node) \cup EndpointsOf(events, last.node) :
              ep[2].service[1] # NoValue /\ ep[2].service[2] # NoValue
        /\ \A k \in 1..Len(last.list) :
              ~IsMalformed(last.list[k]) => EntriesFor(Reg, last.node, last.list[k]) # {}

\* C10 (a missing map is an empty map): registerServices(node, list) with a
\* well-formed descriptor that has no actions map (no events map) does not
\* throw, for a new service and for a known one; afterwards the service of
\* that descriptor has no actions (no events) and the node has no endpoint
\* under the names that service held before.
C10_MissingMapIsEmpty ==
    [][(/\ last'.op = "registerServices"
        /\ \A k \in 1..Len(last'.list) : ~IsMalformed(last'.list[k])) =>
        \A k \in 1..Len(last'.list) :
            LET svc == last'.list[k] IN
            /\ "actions" \notin DOMAIN svc =>
                  /\ last'.err = "none"
                  /\ \A x \in EntriesFor(Reg', last'.node, svc) : x.actions = {}
                  /\ \A x \in EntriesFor(Reg, last'.node, svc) :
                        x.actions \cap ActionNamesOf(Reg', last'.node) = {}
            /\ "events" \notin DOMAIN svc =>
                  /\ last'.err = "none"
                  /\ \A x \in EntriesFor(Reg', last'.node, svc) : x.events = {}
                  /\ \A x \in EntriesFor(Reg, last'.node, svc) :
                        x.events \cap EventNamesOf(Reg', last'.node) = {}]_vars

\* A catalog holds at most one endpoint per node under each name.
OnePerNode(cat) ==
    \A n \in DOMAIN cat : \A i, j \in 1..Len(cat[n].endpoints) :
        cat[n].endpoints[i].node = cat[n].endpoints[j].node => i = j

EndpointCount(cat, name, node) ==
    IF name \in DOMAIN cat
    THEN Cardinality({i \in 1..Len(cat[name].endpoints) : cat[name].endpoints[i].node = node})
    ELSE 0

\* C4 (upsert, no duplicate endpoints): every EndpointList holds at most one
\* endpoint per node; after registerActions (registerEvents) the node has
\* exactly one endpoint under each name handed over, also when it had one
\* there before the call.
C4_UpsertNoDuplicates ==
    /\ OnePerNode(actions)
    /\ OnePerNode(events)
    /\ last.op = "registerActions" =>
          \A n \in last.list[1].actions : EndpointCount(actions, n, last.node) = 1
    /\ last.op = "registerEvents" =>
          \A n \in last.list[1].events : EndpointCount(events, n, last.node) = 1

\* C4 happens: registerActions has just been called with {add} for a node
\* that already had its endpoint under add, and has exactly one there.
C4_Witness ==
    /\ last.op = "registerActions"
    /\ last.list = <<[actions |-> {"add"}]>>
    /\ last.known
    /\ EndpointCount(actions, "add", last.node) = 1

\* C7 (lookup misses are values): getActionEndpoints does not throw and
\* returns undefined for a name the catalog does not hold (the list of the
\* name otherwise); getActionEndpointByNodeId does not throw, returns the
\* endpoint of exactly that node in the list of the name when there is one,
\* and undefined when the name is unknown or the node has no endpoint there.
C7_LookupMissesAreValues ==
    /\ last.op = "getActionEndpoints" =>
          /\ last.err = "none"
          /\ last.ret = IF last.name \in DOMAIN actions THEN actions[last.name] ELSE Undefined
    /\ last.op = "getActionEndpointByNodeId" =>
          /\ last.err = "none"
          /\ IF HasEndpoint(actions, last.name, last.node)
             THEN last.ret \in Range(actions[last.name].endpoints) /\ last.ret.node = last.node
             ELSE last.ret = Undefined

\* C7 happens: getActionEndpointByNodeId has just been asked for a node that
\* has no endpoint under a name other nodes serve, and answered undefined.
C7_Witness ==
    /\ last.op = "getActionEndpointByNodeId"
    /\ last.name \in DOMAIN actions
    /\ ~last.known
    /\ last.ret = Undefined
    /\ last.err = "none"

\* The call last records, made once more on registry R.
Again(R, call) ==
    CASE call.op = "unregisterService" -> unregisterService(R, call.name, call.version, call.node)
      [] call.op = "unregisterServicesByNode" -> unregisterServicesByNode(R, call.node)
      [] call.op = "unregisterAction" -> unregisterAction(R, call.node, call.name)
      [] call.op = "unregisterEvent" -> unregisterEvent(R, call.node, call.name)
      [] OTHER -> R

RemovalOps ==
    {"unregisterService", "unregisterServicesByNode", "unregisterAction", "unregisterEvent"}

\* C8 (removing an unknown target is a no-op): unregisterService,
\* unregisterServicesByNode, unregisterAction and unregisterEvent throw
\* nothing; called for a target the registry does not hold they leave the
\* registry as it was; and the same call made again leaves the registry as
\* the first call left it.
C8_RemovalOfUnknownIsNoOp ==
    [][last'.op \in RemovalOps =>
        /\ last'.err = "none"
        /\ ~last'.known => UNCHANGED <<services, actions, events, localServices>>
        /\ Again(Reg', last') = Reg']_vars

\* C8 happens: unregisterService has just been called for a service the
\* registry, which holds others, did not hold.
C8_Witness ==
    /\ last.op = "unregisterService"
    /\ ~last.known
    /\ last.err = "none"
    /\ Len(services) > 0

\* The endpoints that n consecutive list.select() calls return, nothing
\* else touching the list in between.
RECURSIVE SelectRun(_, _, _)
SelectRun(strategy, list, n) ==
    IF n = 0 THEN <<>>
    ELSE LET r == ListSelect(strategy, list)
         IN  <<r.ep>> \o SelectRun(strategy, r.list, n - 1)

\* C6 (round-robin fairness): for every EndpointList of the ActionCatalog
\* with k >= 1 available endpoints, k consecutive select() calls return each
\* available endpoint exactly once, the (k+1)-th returns what the first did,
\* and the next cycle repeats the order of the first.
C6_RoundRobinFairness ==
    \A name \in DOMAIN actions :
        LET list == actions[name]
            k == Len(Available(list))
            run == SelectRun(ActionCatalogStrategy, list, 2 * k)
        IN  k >= 1 =>
              /\ {run[i] : i \in 1..k} = Range(Available(list))
              /\ run[k + 1] = run[1]
              /\ \A i \in 1..k : run[k + i] = run[i]

\* C6 happens: select() has just returned the last of three available
\* endpoints and wrapped the cursor.
C6_Witness ==
    /\ last.op = "select"
    /\ last.name \in DOMAIN actions
    /\ Len(Available(actions[last.name])) = 3
    /\ actions[last.name].cursor = 0
    /\ last.ret = Available(actions[last.name])[3]

\* Peers of the registry: a new one, and those that earlier received
\* the discovery snapshot the registry gave when it held the first k of its
\* local services.
Peers ==
    {NewRegistry} \cup
    {registerServices(NewRegistry, LocalNodeID,
                      getLocalNodeInfo([Reg EXCEPT !.services = SubSeq(services, 1, k)]).services) :
        k \in 1..Len(services)}

\* C11 (discovery round trip): with the local services L registered through
\* registerLocalService, a peer that is fed the services field of
\* getLocalNodeInfo() through registerServices(node, services) records for
\* that node exactly the services, the action names and the event names of L.
C11_DiscoveryRoundTrip ==
    last.op = "getLocalNodeInfo" =>
        \A peer \in Peers :
            LET fed == registerServices(peer, LocalNodeID, last.ret.services)
            IN  /\ fed.err = "none"
                /\ NodeView(fed, LocalNodeID) =
                      [services |-> ListedServices(registered),
                       actions |-> ListedActions(registered),
                       events |-> ListedEvents(registered)]

\* C11 happens: the snapshot of two local services, with an action and an
\* event between them, has just been built.
C11_Witness ==
    /\ last.op = "getLocalNodeInfo"
    /\ Len(registered) = 2
    /\ Len(last.ret.services) = 2
    /\ ListedActions(registered) # {}
    /\ ListedEvents(registered) # {}

\* Whether the catalog holds, under the name, an endpoint on the node of the
\* service that was registered for that service.
OwnsEndpoint(cat, name, service) ==
    /\ name \in DOMAIN cat
    /\ \E ep \in Range(cat[name].endpoints) :
          ep.node = service.node /\ ep.service = <<service.name, service.version>>

\* The action and event names that another service entry of the same node
\* has in its maps as well.
SharedActions(svcs, i) ==
    UNION {svcs[j].actions : j \in {k \in 1..Len(svcs) : k # i /\ svcs[k].node = svcs[i].node}}

SharedEvents(svcs, i) ==
    UNION {svcs[j].events : j \in {k \in 1..Len(svcs) : k # i /\ svcs[k].node = svcs[i].node}}

\* C12 (service maps agree with the catalogs): for every service the
\* registry holds, a name is in the service's action map (event map) if and
\* only if the ActionCatalog (EventCatalog) holds an endpoint under that name
\* on the service's node, registered for that service.  Stated for the names
\* that no other service of the node has in its map.
C12_ServiceMapsAgree ==
    \A i \in 1..Len(services) :
        /\ \A n \in (ActionNames \cup services[i].actions) \ SharedActions(services, i) :
              n \in services[i].actions <=> OwnsEndpoint(actions, n, services[i])
        /\ \A n \in (EventNames \cup services[i].events) \ SharedEvents(services, i) :
              n \in services[i].events <=> OwnsEndpoint(events, n, services[i])

\* C13 (no dangling empty lists): every EndpointList in the ActionCatalog
\* and in the EventCatalog holds at least one endpoint, so get(name) is
\* absent for a name without endpoints; after unregisterAction
\* (unregisterEvent) the node has no endpoint under the name, and when that
\* was the last endpoint the name is not in the catalog any more.
C13_NoEmptyLists ==
    /\ \A n \in DOMAIN actions : Len(actions[n].endpoints) >= 1
    /\ \A n \in DOMAIN events : Len(events[n].endpoints) >= 1
    /\ \A n \in ActionNames :
          CatalogGet(actions, n) = Undefined <=> \A node \in NodeIDs : ~HasEndpoint(actions, n, node)
    /\ \A n \in EventNames :
          CatalogGet(events, n) = Undefined <=> \A node \in NodeIDs : ~HasEndpoint(events, n, node)
    /\ last.op = "unregisterAction" => ~HasEndpoint(actions, last.name, last.node)
    /\ last.op = "unregisterEvent" => ~HasEndpoint(events, last.name, last.node)

\* C13 happens: unregisterAction has just removed the only endpoint of a
\* name, and the catalog has no entry for the name.
C13_Witness ==
    /\ last.op = "unregisterAction"
    /\ last.known
    /\ last.name \notin DOMAIN actions
    /\ getActionEndpoints(Reg, last.name).ret = Undefined

\* The number of service entries with the identity (name, version, node).
EntryCount(svcs, name, version, node) ==
    Cardinality({i \in 1..Len(svcs) : ServiceEquals(svcs[i], name, version, node)})

\* C14 (service identity uniqueness): the ServiceCatalog holds at most one
\* service entry for each (name, version, nodeId); after
\* registerServices(node, list) it holds exactly one for every descriptor of
\* the list, also when the list names a service more than once and when the
\* node's services were known before.
C14_ServiceIdentityUnique ==
    /\ \A i, j \in 1..Len(services) :
          ServiceEquals(services[i], services[j].name, services[j].version, services[j].node)
              => i = j
    /\ last.op = "registerServices" =>
          \A k \in 1..Len(last.list) :
              EntryCount(services, last.list[k].name, last.list[k].version, last.node) = 1

\* C14 happens: a snapshot that lists one service twice has just been
\* reconciled for a node whose services were known, and the node has one
\* entry for it.
C14_Witness ==
    /\ last.op = "registerServices"
    /\ last.known
    /\ Len(last.list) = 2
    /\ last.list[1].name = last.list[2].name
    /\ last.list[1].version = last.list[2].version
    /\ EntryCount(services, last.list[1].name, last.list[1].version, last.node) = 1

\* Whether the node has an available endpoint in the list of the name.
Selectable(cat, name, node) ==
    /\ name \in DOMAIN cat
    /\ \E ep \in Range(cat[name].endpoints) : ep.node = node /\ ep.available

\* select() has just returned the endpoint of the node in the list of the name.
Returned(name, node) ==
    /\ last.op = "select"
    /\ last.name = name
    /\ last.ret # Undefined
    /\ last.ret.node = node

\* What select() may return: an available endpoint of the list as it is now,
\* and undefined only when the list has none.
SelectInRange ==
    last.op = "select" =>
        IF Len(Available(actions[last.name])) = 0
        THEN last.ret = Undefined
        ELSE last.ret \in Range(Available(actions[last.name]))

Applied(R, node, list) ==
    /\ \A k \in 1..Len(list) :
          \E x \in EntriesFor(R, node, list[k]) :
              /\ ListedActions(<<list[k]>>) \subseteq x.actions
              /\ ListedEvents(<<list[k]>>) \subseteq x.events
    /\ ServicesOf(R, node) = ListedServices(list)

C17_ConfiguredStrategyUsed ==
    /\ [](DOMAIN actions # {} => ActionCatalogStrategy = StrategyFactory)
    /\ [](DOMAIN events # {} => EventCatalogStrategy = StrategyFactory)
    /\ [][last'.op = "select" =>
            LET r == ListSelect(StrategyFactory, actions[last'.name])
            IN  last'.ret = r.ep /\ actions'[last'.name] = r.list]_vars

\* The services of a snapshot that list the name among their actions (events).
ListingAction(list, name) ==
    {<<list[k].name, list[k].version>> :
        k \in {j \in 1..Len(list) : name \in ListedActions(<<list[j]>>)}}

ListingEvent(list, name) ==
    {<<list[k].name, list[k].version>> :
        k \in {j \in 1..Len(list) : name \in ListedEvents(<<list[j]>>)}}

\* C18 (reconciling one service never removes another service's endpoint):
\* after registerServices(node, S), under every action (event) name that a
\* descriptor of S lists the node has its endpoint, registered by a service
\* whose descriptor lists the name, whatever other services of the node
\* dropped the name in S and wherever they stand in S.
C18_NoCrossServiceRemoval ==
    (last.op = "registerServices" /\ last.err = "none") =>
        /\ \A n \in ListedActions(last.list) :
              /\ n \in DOMAIN actions
              /\ \E ep \in Range(actions[n].endpoints) :
                    ep.node = last.node /\ ep.service \in ListingAction(last.list, n)
        /\ \A n \in ListedEvents(last.list) :
              /\ n \in DOMAIN events
              /\ \E ep \in Range(events[n].endpoints) :
                    ep.node = last.node /\ ep.service \in ListingEvent(last.list, n)

\* The three catalogs of a registry.
Catalogs(R) == [services |-> R.services, actions |-> R.actions, events |-> R.events]

\* C19 (an empty snapshot is a full removal): registerServices(node, [])
\* leaves the ServiceCatalog, the ActionCatalog and the EventCatalog as
\* unregisterServicesByNode(node.id) would have left them, and that is with
\* no service and no endpoint of the node.
C19_EmptySnapshotRemovesAll ==
    [][(last'.op = "registerServices" /\ last'.list = <<>>) =>
        /\ Catalogs(Reg') = Catalogs(unregisterServicesByNode(Reg, last'.node))
        /\ ServicesOf(Reg', last'.node) = {}
        /\ EndpointsOf(actions', last'.node) = {}
        /\ EndpointsOf(events', last'.node) = {}]_vars

\* The entries left when those of the identity (name, version) are taken out.
Without(entries, name, version) ==
    LET Other(x) == ~(x.name = name /\ x.version = version) IN SelectSeq(entries, Other)

\* C20 (unregisterService without a node id targets the local node only):
\* unregisterService(name, version) removes the local node's service
\* (name, version) if there is one and nothing else; with a node id it
\* removes that node's service (name, version) and nothing else.  The
\* services and the endpoints of every other node, a service of the same
\* name and version among them, are as they were.
C20_UnregisterServiceTarget ==
    [][last'.op = "unregisterService" =>
        LET target == IF last'.node = NoValue THEN LocalNodeID ELSE last'.node IN
        /\ \A n \in NodeIDs \ {target} :
              /\ ServiceEntriesOf(services', n) = ServiceEntriesOf(services, n)
              /\ EndpointsOf(actions', n) = EndpointsOf(actions, n)
              /\ EndpointsOf(events', n) = EndpointsOf(events, n)
        /\ \A n \in NodeIDs \cap {target} :
              ServiceEntriesOf(services', n)
                  = Without(ServiceEntriesOf(services, n), last'.name, last'.version)]_vars

\* C20 happens: unregisterService has just been called without a node id
\* for a service the local node held, and a remote node still holds the
\* service of that name and version.
C20_Witness ==
    /\ last.op = "unregisterService"
    /\ last.node = NoValue
    /\ last.known
    /\ ServicesGet(services, last.name, last.version, LocalNodeID) = 0
    /\ \E n \in RemoteNodeIDs : ServicesGet(services, last.name, last.version, n) # 0

============================================================================
